---- MODULE Spec2Model ----
(***************************************************************************)
(* Model of c_examples/digilent_jtag_control.c: a JTAG-AXI bridge driver   *)
(* that reaches an LED register through the USER1 scan chain of a Digilent *)
(* USB-JTAG adapter.  The adapter library (Dmgr, Djtg) is the transport;   *)
(* the device behind it is the IEEE 1149.1 TAP controller.                 *)
(***************************************************************************)
EXTENDS Integers, Sequences, FiniteSets, TLC

(***************************************************************************)
(* Protocol constants (#define lines 25-30).                               *)
(***************************************************************************)
USER1_INSTRUCTION == 2
IR_LENGTH == 6
DR_LENGTH == 96
CMD_WRITE == 1
CMD_READ == 2
LED_BASE_ADDR == 1136656384

(***************************************************************************)
(* Bounds of the model.                                                    *)
(***************************************************************************)
\* led_pattern values offered to led_write: 0 .. MaxPattern (16 = 0x10 is
\* the first value outside the 4-bit range).
MaxPattern == 16
\* Device handles DmgrOpen gives out in one run, numbered 1 .. MaxOpens.
MaxOpens == 2

\* The largest value of a uint8_t argument (led_pattern, instruction).
MaxByte == 255
Bytes == 0 .. MaxByte

Callers == {1, 2}
Patterns == 0 .. MaxPattern

(***************************************************************************)
(* The TAP controller of IEEE 1149.1: sixteen states, one transition per   *)
(* TCK clock, selected by TMS.                                             *)
(***************************************************************************)
TapStates ==
    {"TestLogicReset", "RunTestIdle",
     "SelectDRScan", "CaptureDR", "ShiftDR", "Exit1DR", "PauseDR", "Exit2DR", "UpdateDR",
     "SelectIRScan", "CaptureIR", "ShiftIR", "Exit1IR", "PauseIR", "Exit2IR", "UpdateIR"}

TapNext(s, tms) ==
    CASE s = "TestLogicReset" -> IF tms = 1 THEN "TestLogicReset" ELSE "RunTestIdle"
      [] s = "RunTestIdle"    -> IF tms = 1 THEN "SelectDRScan" ELSE "RunTestIdle"
      [] s = "SelectDRScan"   -> IF tms = 1 THEN "SelectIRScan" ELSE "CaptureDR"
      [] s = "CaptureDR"      -> IF tms = 1 THEN "Exit1DR" ELSE "ShiftDR"
      [] s = "ShiftDR"        -> IF tms = 1 THEN "Exit1DR" ELSE "ShiftDR"
      [] s = "Exit1DR"        -> IF tms = 1 THEN "UpdateDR" ELSE "PauseDR"
      [] s = "PauseDR"        -> IF tms = 1 THEN "Exit2DR" ELSE "PauseDR"
      [] s = "Exit2DR"        -> IF tms = 1 THEN "UpdateDR" ELSE "ShiftDR"
      [] s = "UpdateDR"       -> IF tms = 1 THEN "SelectDRScan" ELSE "RunTestIdle"
      [] s = "SelectIRScan"   -> IF tms = 1 THEN "TestLogicReset" ELSE "CaptureIR"
      [] s = "CaptureIR"      -> IF tms = 1 THEN "Exit1IR" ELSE "ShiftIR"
      [] s = "ShiftIR"        -> IF tms = 1 THEN "Exit1IR" ELSE "ShiftIR"
      [] s = "Exit1IR"        -> IF tms = 1 THEN "UpdateIR" ELSE "PauseIR"
      [] s = "PauseIR"        -> IF tms = 1 THEN "Exit2IR" ELSE "PauseIR"
      [] s = "Exit2IR"        -> IF tms = 1 THEN "UpdateIR" ELSE "ShiftIR"
      [] s = "UpdateIR"       -> IF tms = 1 THEN "SelectDRScan" ELSE "RunTestIdle"

\* Bit i (0 = least significant) of the byte value v.
Bit(v, i) == (v \div (2 ^ i)) % 2

\* The TAP states the controller goes through while bits i .. i + n - 1 of
\* `bits` are clocked on TMS, LSB first; the first element is the state s
\* it starts in.
RECURSIVE TmsBits(_, _, _, _)
TmsBits(s, bits, i, n) ==
    IF n = 0 THEN << s >>
    ELSE IF n = 1 THEN << s, TapNext(s, Bit(bits, i)) >>
    ELSE LET h == n \div 2
             a == TmsBits(s, bits, i, h)
         IN  a \o Tail(TmsBits(a[h + 1], bits, i + h, n - h))

\* DjtgPutTmsBits(hif, bits, NULL, count, fFalse).
TmsPath(s, bits, count) == TmsBits(s, bits, 0, count)

\* DjtgPutTdiBits(hif, snd, rcv, count, fFalse): the TAP states the
\* controller goes through while `count` data bits are clocked; TMS is held
\* low throughout.
RECURSIVE TdiPath(_, _)
TdiPath(s, count) ==
    IF count = 0 THEN << s >>
    ELSE IF count = 1 THEN << s, TapNext(s, 0) >>
    ELSE LET h == count \div 2
             a == TdiPath(s, h)
         IN  a \o Tail(TdiPath(a[h + 1], count - h))

\* What the first n clocks of a path did: the state reached, the states the
\* clocks were applied in, and the states they led into.
Clocked(path, n) ==
    [end |-> path[n + 1],
     from |-> {path[j] : j \in 1 .. n},
     into |-> {path[j + 1] : j \in 1 .. n}]

(***************************************************************************)
(* The 96-bit bridge frame, as the twelve bytes of cmd_data[] (1-based     *)
(* here: cmd_data[i] of the source is frame[i + 1]).                       *)
(***************************************************************************)
\* (v >> (8 * i)) & 0xFF
ByteOf(v, i) == (v \div (256 ^ i)) % 256

\* A write frame with the pattern one byte too high in the data field.
WriteFrameShifted(led_pattern) ==
    << ByteOf(CMD_WRITE, 0), ByteOf(CMD_WRITE, 1), ByteOf(CMD_WRITE, 2), ByteOf(CMD_WRITE, 3),
       ByteOf(LED_BASE_ADDR, 0), ByteOf(LED_BASE_ADDR, 1),
       ByteOf(LED_BASE_ADDR, 2), ByteOf(LED_BASE_ADDR, 3),
       0, led_pattern % 16, 0, 0 >>

\* A write frame that puts the whole byte of the pattern in the data field.
WriteFrameUnmasked(led_pattern) ==
    << ByteOf(CMD_WRITE, 0), ByteOf(CMD_WRITE, 1), ByteOf(CMD_WRITE, 2), ByteOf(CMD_WRITE, 3),
       ByteOf(LED_BASE_ADDR, 0), ByteOf(LED_BASE_ADDR, 1),
       ByteOf(LED_BASE_ADDR, 2), ByteOf(LED_BASE_ADDR, 3),
       led_pattern, 0, 0, 0 >>

\* led_write, lines 273-291.
WriteFrame(led_pattern) ==
    << ByteOf(CMD_WRITE, 0), ByteOf(CMD_WRITE, 1), ByteOf(CMD_WRITE, 2), ByteOf(CMD_WRITE, 3),
       ByteOf(LED_BASE_ADDR, 0), ByteOf(LED_BASE_ADDR, 1),
       ByteOf(LED_BASE_ADDR, 2), ByteOf(LED_BASE_ADDR, 3),
       led_pattern % 16, 0, 0, 0 >>

\* led_read, lines 314-327.
ReadFrame ==
    << ByteOf(CMD_READ, 0), ByteOf(CMD_READ, 1), ByteOf(CMD_READ, 2), ByteOf(CMD_READ, 3),
       ByteOf(LED_BASE_ADDR, 0), ByteOf(LED_BASE_ADDR, 1),
       ByteOf(LED_BASE_ADDR, 2), ByteOf(LED_BASE_ADDR, 3),
       0, 0, 0, 0 >>

\* uint8_t response[12] = {0}, line 315.
ZeroFrame == << 0, 0, 0, 0, 0, 0, 0, 0, 0, 0, 0, 0 >>

\* An extraction that masks to three bits.
ExtractLedNarrow(response) == response[9] % 8

\* led_read, line 340: response[8] & 0xF.
ExtractLed(response) == response[9] % 16

\* The little-endian 32-bit field of a frame that starts at byte offset off.
Field32(frame, off) ==
    frame[off + 1] + 256 * frame[off + 2] + 65536 * frame[off + 3] + 16777216 * frame[off + 4]

(***************************************************************************)
(* The mocked peer of the end-to-end scenarios: a bridge register that     *)
(* takes the data field of a Write frame shifted through the DR scan and   *)
(* gives its content back at the data-field position of the response.      *)
(***************************************************************************)
MockStore(reg, frame, cbit) ==
    IF cbit = DR_LENGTH /\ Field32(frame, 0) = CMD_WRITE THEN Field32(frame, 8) ELSE reg

MockResponse(reg) ==
    << 0, 0, 0, 0, 0, 0, 0, 0, ByteOf(reg, 0), ByteOf(reg, 1), ByteOf(reg, 2), ByteOf(reg, 3) >>

(***************************************************************************)
(* Inputs.                                                                 *)
(***************************************************************************)
\* Instruction values given to a direct jtag_shift_ir call.
Instructions == {USER1_INSTRUCTION, 255}
\* Widths given to a direct jtag_shift_dr call.
BitCounts == {DR_LENGTH, 8}
\* Frames given to a direct jtag_shift_dr call.
Frames == {WriteFrame(5), ReadFrame}
\* What an output location may hold before led_read is called on it (the
\* callers declare it without an initial value, lines 88 and 362).
UninitBytes == {0, 255}
\* Patterns written where the whole range is not needed: one inside and one
\* outside the 4-bit range.
SomePatterns == {5, MaxPattern}

RegisterAccess == {"led_write", "led_read"}
ShiftOps == {"jtag_shift_ir", "jtag_shift_dr"} \cup RegisterAccess

VARIABLES
    \* jtag_axi_handle_t (lines 33-37)
    hif,            \* the device handle; 0 is the value of the = {0} initialiser
    is_connected,
    \* the adapter library and the device behind it
    openHandles,    \* device handles DmgrOpen gave out and DmgrClose has not closed
    jtagEnabled,    \* open handles on which DjtgEnable succeeded
    nOpens,         \* device handles given out so far
    tap,            \* the state of the device's TAP controller
    reg,            \* the mocked bridge register
    \* each caller's running operation
    pc,             \* "idle" or the transport call the operation is about to make
    op,             \* the operation running, or the last one that ran
    arg,            \* its led_pattern / instruction argument
    cmd_data,       \* the frame handed to jtag_shift_dr
    response,       \* the tdo buffer
    bit_count,
    capture,        \* tdo_data # NULL
    ret,            \* the value the operation returned
    led_data,       \* the caller's output location of led_read
    \* what happened during the operation, for the properties
    wasConn,        \* is_connected (of a non-NULL handle) when the operation was called
    tap0,           \* the TAP state when the operation was called (before the
                    \* first operation: the power-up state)
    ncalls,         \* TMS/TDI transport calls the operation has issued
    failed,         \* a transport call of the operation has failed
    deadCall,       \* a TMS/TDI call was issued on a handle not open and JTAG-enabled
    tdiInShift,     \* every bit of the operation's latest TDI shift was clocked with
                    \* the TAP in the shift state of its scan (Shift-IR in
                    \* jtag_shift_ir, Shift-DR in jtag_shift_dr)
    updated,        \* the TAP has entered the update state of its scan (Update-IR,
                    \* Update-DR) during the current jtag_shift_ir/jtag_shift_dr
    teardown,       \* the operation ran DjtgDisable and DmgrClose (lines 198-201)
    interleaved,    \* another caller's transport call fell between two of this operation's
    written,        \* during and after a led_read: the pattern of the led_write it
                    \* directly follows, when that led_write returned 0; otherwise -1
    lastCaller,     \* who issued the latest TMS/TDI transport call
    nConnectOk, nTeardown,
    tdiSeen,        \* the bit counts of the TDI shifts the operation has issued
    errmsg,         \* the ERROR line the operation has printed ("" if none)
    out0,           \* what the output location of led_read held when it was called
    badClose,       \* the operation called DmgrClose on a handle that was not open
    \* test_led_patterns (lines 346-379)
    tpc,            \* where the helper stands: "off" when it is not running
    ti,             \* the loop index i
    attempts,       \* the patterns led_write was called with, in order
    verdict,        \* what the latest iteration ended with
    cmpFailed,      \* read_data was compared or printed after a failed led_read
    \* main (lines 50-107)
    mpc,            \* where main stands: "off" when main is not modelled
    mgr,            \* the manager handle g_dmgr: "none", "open" or "closed"
    status,         \* the value main returns
    dblClose        \* main had DmgrClose called on a handle that was not open

handleVars == << hif, is_connected >>
deviceVars == << openHandles, jtagEnabled, nOpens, tap, reg >>
callVars == << pc, op, arg, cmd_data, response, bit_count, capture, ret, led_data >>
histVars == << wasConn, tap0, ncalls, failed, deadCall, tdiInShift, updated, teardown,
               interleaved, written, lastCaller, nConnectOk, nTeardown,
               tdiSeen, errmsg, out0, badClose >>
testVars == << tpc, ti, attempts, verdict, cmpFailed >>
mainVars == << mpc, mgr, status, dblClose >>
progVars == << testVars, mainVars >>
vars == << handleVars, deviceVars, callVars, histVars, progVars >>

\* test_led_patterns is not running.
TestOff ==
    /\ tpc = "off"
    /\ ti = 0
    /\ attempts = << >>
    /\ verdict = "none"
    /\ cmpFailed = FALSE

\* The operations are called without main.
MainOff ==
    /\ mpc = "off"
    /\ mgr = "none"
    /\ status = 0
    /\ dblClose = FALSE

\* The state of main at line 72: jtag_handle = {0}, nothing opened, the TAP
\* in whatever state the device was left in.
Unconnected ==
    /\ hif = 0
    /\ is_connected = FALSE
    /\ openHandles = {}
    /\ jtagEnabled = {}
    /\ nOpens = 0
    /\ tap \in TapStates
    /\ reg = 0
    /\ pc = [c \in Callers |-> "idle"]
    /\ op = [c \in Callers |-> "none"]
    /\ arg = [c \in Callers |-> 0]
    /\ cmd_data = [c \in Callers |-> ZeroFrame]
    /\ response = [c \in Callers |-> ZeroFrame]
    /\ bit_count = [c \in Callers |-> 0]
    /\ capture = [c \in Callers |-> FALSE]
    /\ ret = [c \in Callers |-> 0]
    /\ led_data = [c \in Callers |-> 0]
    /\ wasConn = [c \in Callers |-> FALSE]
    /\ tap0 = [c \in Callers |-> "TestLogicReset"]
    /\ ncalls = [c \in Callers |-> 0]
    /\ failed = [c \in Callers |-> FALSE]
    /\ deadCall = [c \in Callers |-> FALSE]
    /\ tdiInShift = [c \in Callers |-> TRUE]
    /\ updated = [c \in Callers |-> FALSE]
    /\ teardown = [c \in Callers |-> FALSE]
    /\ interleaved = [c \in Callers |-> FALSE]
    /\ written = [c \in Callers |-> -1]
    /\ lastCaller = 0
    /\ nConnectOk = 0
    /\ nTeardown = 0
    /\ tdiSeen = [c \in Callers |-> << >>]
    /\ errmsg = [c \in Callers |-> ""]
    /\ out0 = [c \in Callers |-> 0]
    /\ badClose = [c \in Callers |-> FALSE]

Init == Unconnected /\ TestOff /\ MainOff

(***************************************************************************)
(* Guards and control flow of the operations.                              *)
(***************************************************************************)
\* disconnect_device without the is_connected test of line 193.
DisconnectAlways(hnull, conn) == ~hnull

\* disconnect_device, line 193: the teardown runs unless !handle or
\* !handle->is_connected.
DisconnectRuns(hnull, conn) == ~hnull /\ conn

\* jtag_shift_ir line 209, jtag_shift_dr line 241, led_write line 268,
\* led_read line 309 (without its !led_data).
SessionUsable(hnull, conn) == ~hnull /\ conn

IrPcs == {"ir_reset", "ir_enter", "ir_shift", "ir_exit"}
DrPcs == {"dr_enter", "dr_shift", "dr_exit"}

\* The shift and update states of the scan that position `at` belongs to.
ShiftOf(at) == IF at \in IrPcs THEN "ShiftIR" ELSE "ShiftDR"
UpdateOf(at) == IF at \in IrPcs THEN "UpdateIR" ELSE "UpdateDR"

\* jtag_shift_ir, lines 214-236: after the transport call at position `at`
\* returned good, the next transport call, or "return" with the value.
ShiftIrFlow(at, good) ==
    IF ~good THEN [pc |-> "return", ret |-> -1]
    ELSE IF at = "ir_reset" THEN [pc |-> "ir_enter", ret |-> 0]
    ELSE IF at = "ir_enter" THEN [pc |-> "ir_shift", ret |-> 0]
    ELSE IF at = "ir_shift" THEN [pc |-> "ir_exit", ret |-> 0]
    ELSE [pc |-> "return", ret |-> 0]

\* jtag_shift_dr, lines 246-263.
ShiftDrFlow(at, good) ==
    IF ~good THEN [pc |-> "return", ret |-> -1]
    ELSE IF at = "dr_enter" THEN [pc |-> "dr_shift", ret |-> 0]
    ELSE IF at = "dr_shift" THEN [pc |-> "dr_exit", ret |-> 0]
    ELSE [pc |-> "return", ret |-> 0]

\* An access that goes on to the DR scan whatever jtag_shift_ir returned.
LedAfterIrIgnored(r) == [pc |-> "dr_enter", ret |-> 0]

\* led_write lines 294-296, led_read lines 330-332: what the access does
\* with the value r of jtag_shift_ir.
LedAfterIr(r) ==
    IF r # 0 THEN [pc |-> "idle", ret |-> -1] ELSE [pc |-> "dr_enter", ret |-> 0]

\* led_write lines 299-304, led_read lines 335-343: what the access does
\* with the value r of jtag_shift_dr.
LedAfterDr(r) ==
    IF r # 0 THEN [pc |-> "idle", ret |-> -1] ELSE [pc |-> "idle", ret |-> 0]

\* Where operation o stands, and what it has returned once it stands at
\* "idle", after its transport call at position `at` returned good.
Flow(o, at, good) ==
    LET f == IF at \in IrPcs THEN ShiftIrFlow(at, good) ELSE ShiftDrFlow(at, good)
    IN  IF f.pc # "return" THEN f
        ELSE IF o \in RegisterAccess
             THEN IF at \in IrPcs THEN LedAfterIr(f.ret) ELSE LedAfterDr(f.ret)
             ELSE [pc |-> "idle", ret |-> f.ret]

(***************************************************************************)
(* Session operations.                                                     *)
(***************************************************************************)
\* What every operation records when caller c calls it.
Begin(c, o, a, conn) ==
    /\ pc[c] = "idle"
    /\ written' = [written EXCEPT ![c] =
                      IF o = "led_read" /\ op[c] = "led_write" /\ ret[c] = 0
                      THEN arg[c] ELSE -1]
    /\ op' = [op EXCEPT ![c] = o]
    /\ arg' = [arg EXCEPT ![c] = a]
    /\ wasConn' = [wasConn EXCEPT ![c] = conn]
    /\ tap0' = [tap0 EXCEPT ![c] = tap]
    /\ ncalls' = [ncalls EXCEPT ![c] = 0]
    /\ failed' = [failed EXCEPT ![c] = FALSE]
    /\ deadCall' = [deadCall EXCEPT ![c] = FALSE]
    /\ tdiInShift' = [tdiInShift EXCEPT ![c] = TRUE]
    /\ updated' = [updated EXCEPT ![c] = FALSE]
    /\ interleaved' = [interleaved EXCEPT ![c] = FALSE]
    /\ tdiSeen' = [tdiSeen EXCEPT ![c] = << >>]

\* The locals of an operation that has no frame.
NoFrame(c) ==
    /\ cmd_data' = [cmd_data EXCEPT ![c] = ZeroFrame]
    /\ response' = [response EXCEPT ![c] = ZeroFrame]
    /\ bit_count' = [bit_count EXCEPT ![c] = 0]
    /\ capture' = [capture EXCEPT ![c] = FALSE]
    /\ led_data' = [led_data EXCEPT ![c] = 0]

\* connect_device, lines 138-189.  getOk, openOk and enOk are the results of
\* DmgrGetDvc, DmgrOpen and DjtgEnable; a failed DmgrOpen leaves handle->hif
\* as it was, and DmgrOpen fails once the adapter has given out MaxOpens
\* handles.
Connect(c, hnull, nameNull, getOk, openOk, enOk) ==
        LET h == nOpens + 1
            stop == hnull \/ (nameNull /\ ~getOk)
            opened == ~stop /\ openOk /\ nOpens < MaxOpens
            done == opened /\ enOk
        IN  /\ Begin(c, "connect_device", 0, ~hnull /\ is_connected)
            /\ NoFrame(c)
            /\ hif' = IF opened THEN h ELSE hif
            /\ nOpens' = IF opened THEN h ELSE nOpens
            /\ openHandles' = IF done THEN openHandles \cup {h} ELSE openHandles
            /\ jtagEnabled' = IF done THEN jtagEnabled \cup {h} ELSE jtagEnabled
            /\ is_connected' = IF done THEN TRUE ELSE is_connected
            /\ nConnectOk' = IF done THEN nConnectOk + 1 ELSE nConnectOk
            /\ ret' = [ret EXCEPT ![c] = IF done THEN 0 ELSE -1]
            /\ teardown' = [teardown EXCEPT ![c] = FALSE]
            /\ errmsg' = [errmsg EXCEPT ![c] =
                             IF done \/ hnull THEN ""
                             ELSE IF stop THEN "Failed to get device name"
                             ELSE IF ~opened THEN "Failed to open device"
                             ELSE "Failed to enable JTAG"]
            /\ out0' = [out0 EXCEPT ![c] = 0]
            \* line 164 closes the handle line 156 has just opened
            /\ badClose' = [badClose EXCEPT ![c] = FALSE]
            /\ UNCHANGED << pc, tap, reg, lastCaller, nTeardown >>

ConnectDevice(c) ==
    \E hnull, nameNull, getOk, openOk, enOk \in BOOLEAN :
        Connect(c, hnull, nameNull, getOk, openOk, enOk)

\* disconnect_device, lines 191-205.
Disconnect(c, hnull) ==
        LET run == DisconnectRuns(hnull, is_connected)
        IN  /\ Begin(c, "disconnect_device", 0, ~hnull /\ is_connected)
            /\ NoFrame(c)
            /\ jtagEnabled' = IF run THEN jtagEnabled \ {hif} ELSE jtagEnabled
            /\ openHandles' = IF run THEN openHandles \ {hif} ELSE openHandles
            /\ is_connected' = IF run THEN FALSE ELSE is_connected
            /\ nTeardown' = IF run THEN nTeardown + 1 ELSE nTeardown
            /\ teardown' = [teardown EXCEPT ![c] = run]
            /\ ret' = [ret EXCEPT ![c] = 0]
            /\ errmsg' = [errmsg EXCEPT ![c] = ""]
            /\ out0' = [out0 EXCEPT ![c] = 0]
            /\ badClose' = [badClose EXCEPT ![c] = run /\ hif \notin openHandles]
            /\ UNCHANGED << pc, hif, nOpens, tap, reg, lastCaller, nConnectOk >>

DisconnectDevice(c) ==
    \E hnull \in BOOLEAN : Disconnect(c, hnull)

(***************************************************************************)
(* Calls of the shift and access operations: the guard of the first line   *)
(* and the locals built before the first transport call.                   *)
(***************************************************************************)
Enter(c, o, a, conn, usable, first, frame, bits, cap, out) ==
    /\ Begin(c, o, a, conn)
    /\ pc' = [pc EXCEPT ![c] = IF usable THEN first ELSE "idle"]
    /\ ret' = [ret EXCEPT ![c] = IF usable THEN 0 ELSE -1]
    /\ cmd_data' = [cmd_data EXCEPT ![c] = IF usable THEN frame ELSE ZeroFrame]
    /\ response' = [response EXCEPT ![c] = ZeroFrame]
    /\ bit_count' = [bit_count EXCEPT ![c] = IF usable THEN bits ELSE 0]
    /\ capture' = [capture EXCEPT ![c] = usable /\ cap]
    /\ led_data' = [led_data EXCEPT ![c] = out]
    /\ out0' = [out0 EXCEPT ![c] = out]
    /\ errmsg' = [errmsg EXCEPT ![c] = ""]
    /\ badClose' = [badClose EXCEPT ![c] = FALSE]
    /\ teardown' = [teardown EXCEPT ![c] = FALSE]
    /\ UNCHANGED << handleVars, deviceVars, lastCaller, nConnectOk, nTeardown >>

\* jtag_shift_ir(handle, instruction) called directly, lines 207-211.
ShiftIr(c, hnull, instruction) ==
    Enter(c, "jtag_shift_ir", instruction, ~hnull /\ is_connected,
          SessionUsable(hnull, is_connected),
          "ir_reset", ZeroFrame, 0, FALSE, 0)

ShiftIrCall(c) ==
    \E hnull \in BOOLEAN, instruction \in Instructions :
        ShiftIr(c, hnull, instruction)

\* jtag_shift_dr called directly, lines 239-243.
ShiftDrCall(c) ==
    \E hnull, cap \in BOOLEAN, frame \in Frames, bits \in BitCounts :
        Enter(c, "jtag_shift_dr", 0, ~hnull /\ is_connected,
              SessionUsable(hnull, is_connected),
              "dr_enter", frame, bits, cap, 0)

\* led_write(handle, led_pattern), lines 266-291.
LedWrite(c, hnull, led_pattern) ==
    Enter(c, "led_write", led_pattern, ~hnull /\ is_connected,
          SessionUsable(hnull, is_connected),
          "ir_reset", WriteFrame(led_pattern), DR_LENGTH, FALSE, 0)

LedWriteCall(c, led_pattern) ==
    \E hnull \in BOOLEAN : LedWrite(c, hnull, led_pattern)

\* led_read(handle, led_data), lines 307-327; old is what *led_data holds.
LedRead(c, hnull, outNull, old) ==
    Enter(c, "led_read", 0, ~hnull /\ is_connected,
          SessionUsable(hnull, is_connected) /\ ~outNull,
          "ir_reset", ReadFrame, DR_LENGTH, TRUE, IF outNull THEN 0 ELSE old)

LedReadCall(c) ==
    \E hnull, outNull \in BOOLEAN, old \in UninitBytes :
        LedRead(c, hnull, outNull, old)

(***************************************************************************)
(* Transport calls.  A call on a handle that is open and JTAG-enabled      *)
(* either succeeds and clocks all its bits, or fails after clocking some   *)
(* k of them; a call on any other handle fails and clocks nothing.         *)
(***************************************************************************)
Live == hif \in jtagEnabled

\* The ways a call on a live handle that clocks along `path` (count clocks)
\* can turn out.
PathOutcomes(path, count) ==
    {[ok |-> TRUE, did |-> Clocked(path, count)]}
        \cup {[ok |-> FALSE, did |-> Clocked(path, k)] : k \in 0 .. (count - 1)}

\* The ways a call can turn out, of the ways `all` it can on a live handle.
Outcomes(all) ==
    IF Live THEN all ELSE {[ok |-> FALSE, did |-> Clocked(<< tap >>, 0)]}

\* TMS shifts whose opening reset clocks TMS high twice only.
TmsOfShortReset(at) ==
    CASE at = "ir_reset" -> [bits |-> 3, count |-> 2]
      [] at = "ir_enter" -> [bits |-> 1, count |-> 2]
      [] at = "ir_exit"  -> [bits |-> 3, count |-> 2]
      [] at = "dr_enter" -> [bits |-> 1, count |-> 3]
      [] at = "dr_exit"  -> [bits |-> 3, count |-> 2]

\* The TMS shifts of jtag_shift_ir (lines 214, 219, 231) and jtag_shift_dr
\* (lines 246, 258): the bit pattern and the number of bits clocked.
TmsOf(at) ==
    CASE at = "ir_reset" -> [bits |-> 31, count |-> 5]
      [] at = "ir_enter" -> [bits |-> 1, count |-> 2]
      [] at = "ir_exit"  -> [bits |-> 3, count |-> 2]
      [] at = "dr_enter" -> [bits |-> 1, count |-> 3]
      [] at = "dr_exit"  -> [bits |-> 3, count |-> 2]

\* A bit count that follows the width of the instruction value.
IrShiftBitsOfValue(instruction) == IF instruction >= 2 ^ IR_LENGTH THEN 8 ELSE IR_LENGTH

\* The number of bits jtag_shift_ir hands to DjtgPutTdiBits, line 225.
IrShiftBits(instruction) == IR_LENGTH

\* One ERROR line for every failing transport call.
ErrorLineGeneric(at) == "Transport call failed"

\* The ERROR line printed when the transport call at position `at` fails
\* (lines 215, 220, 226, 232, 247, 253, 259).
ErrorLine(at) ==
    CASE at = "ir_reset" -> "Failed to reset TAP"
      [] at = "ir_enter" -> "Failed to enter Shift-IR"
      [] at = "ir_shift" -> "Failed to shift instruction"
      [] at = "ir_exit"  -> "Failed to update IR"
      [] at = "dr_enter" -> "Failed to enter Shift-DR"
      [] at = "dr_shift" -> "Failed to shift data"
      [] at = "dr_exit"  -> "Failed to update DR"

IrErrors == {ErrorLine(at) : at \in IrPcs}
DrErrors == {ErrorLine(at) : at \in DrPcs}

\* A led_read that stores the data field whatever jtag_shift_dr returned.
LedDataAfterAlways(o, at, ok, cur, resp) ==
    IF o = "led_read" /\ at = "dr_exit" THEN ExtractLed(resp) ELSE cur

\* What *led_data holds after the transport call at position `at` of
\* operation o returned ok: led_read stores the data field of the response
\* at line 340, reached only when jtag_shift_dr has returned 0.
LedDataAfter(o, at, ok, cur, resp) ==
    IF o = "led_read" /\ at = "dr_exit" /\ ok THEN ExtractLed(resp) ELSE cur

\* The outcomes of every TMS shift and of every TDI shift of the program,
\* by the TAP state the shift starts in.
TmsShifts == {TmsOf(at) : at \in (IrPcs \cup DrPcs) \ {"ir_shift", "dr_shift"}}
TmsOutcomes ==
    [sh \in TmsShifts |->
        [s \in TapStates |-> PathOutcomes(TmsPath(s, sh.bits, sh.count), sh.count)]]

TdiCounts == {IrShiftBits(i) : i \in Bytes} \cup BitCounts
TdiOutcomes ==
    [n \in TdiCounts |-> [s \in TapStates |-> PathOutcomes(TdiPath(s, n), n)]]

\* What every TMS/TDI call of caller c records.
Issued(c, ok) ==
    /\ ncalls' = [ncalls EXCEPT ![c] = @ + 1]
    /\ failed' = [failed EXCEPT ![c] = @ \/ ~ok]
    /\ deadCall' = [deadCall EXCEPT ![c] = @ \/ ~Live]
    /\ interleaved' = [interleaved EXCEPT ![c] = @ \/ (ncalls[c] > 0 /\ lastCaller # c)]
    /\ lastCaller' = c

\* The operation moves on, or returns, after its call at position `at`.
Proceed(c, at, ok) ==
    LET f == Flow(op[c], at, ok)
    IN  /\ pc' = [pc EXCEPT ![c] = f.pc]
        /\ ret' = [ret EXCEPT ![c] = f.ret]
        /\ errmsg' = [errmsg EXCEPT ![c] = IF ok THEN @ ELSE ErrorLine(at)]

\* DjtgPutTmsBits(handle->hif, bits, NULL, count, fFalse) at position `at`.
TmsStep(c, at, bits, count) ==
    /\ pc[c] = at
    /\ \E o \in Outcomes(TmsOutcomes[[bits |-> bits, count |-> count]][tap]) :
            /\ tap' = o.did.end
            /\ updated' = [updated EXCEPT ![c] =
                             (at \notin {"ir_reset", "dr_enter"} /\ @)
                                 \/ UpdateOf(at) \in o.did.into]
            /\ Issued(c, o.ok)
            /\ Proceed(c, at, o.ok)
            /\ led_data' = [led_data EXCEPT ![c] =
                              LedDataAfter(op[c], at, o.ok, @, response[c])]
            /\ UNCHANGED << handleVars, openHandles, jtagEnabled, nOpens, reg,
                            op, arg, cmd_data, response, bit_count, capture,
                            wasConn, tap0, tdiInShift, teardown, written,
                            nConnectOk, nTeardown, tdiSeen, out0, badClose >>

\* DjtgPutTdiBits(handle->hif, snd, rcv, count, fFalse) at position `at`;
\* isFrame tells the DR scan (snd = tdi_data, rcv = tdo_data) from the IR
\* scan (snd = &instruction, rcv = NULL).
TdiStep(c, at, count, isFrame) ==
    /\ pc[c] = at
    /\ \E o \in Outcomes(TdiOutcomes[count][tap]) :
            /\ tap' = o.did.end
            /\ updated' = [updated EXCEPT ![c] = @ \/ UpdateOf(at) \in o.did.into]
            /\ tdiInShift' = [tdiInShift EXCEPT ![c] = o.did.from \subseteq {ShiftOf(at)}]
            /\ reg' = IF isFrame /\ o.ok THEN MockStore(reg, cmd_data[c], count) ELSE reg
            /\ response' = [response EXCEPT ![c] =
                              IF isFrame /\ o.ok /\ capture[c] /\ count = DR_LENGTH
                              THEN MockResponse(reg) ELSE @]
            /\ tdiSeen' = [tdiSeen EXCEPT ![c] = Append(@, count)]
            /\ Issued(c, o.ok)
            /\ Proceed(c, at, o.ok)
            /\ UNCHANGED << handleVars, openHandles, jtagEnabled, nOpens,
                            op, arg, cmd_data, bit_count, capture, led_data,
                            wasConn, tap0, teardown, written,
                            nConnectOk, nTeardown, out0, badClose >>

\* jtag_shift_ir: line 214, line 219, line 225, line 231.
IrReset(c) == TmsStep(c, "ir_reset", TmsOf("ir_reset").bits, TmsOf("ir_reset").count)
IrEnter(c) == TmsStep(c, "ir_enter", TmsOf("ir_enter").bits, TmsOf("ir_enter").count)
IrShift(c) == TdiStep(c, "ir_shift", IrShiftBits(arg[c]), FALSE)
IrExit(c) == TmsStep(c, "ir_exit", TmsOf("ir_exit").bits, TmsOf("ir_exit").count)

\* jtag_shift_dr: line 246, line 252, line 258.
DrEnter(c) == TmsStep(c, "dr_enter", TmsOf("dr_enter").bits, TmsOf("dr_enter").count)
DrShift(c) == TdiStep(c, "dr_shift", bit_count[c], TRUE)
DrExit(c) == TmsStep(c, "dr_exit", TmsOf("dr_exit").bits, TmsOf("dr_exit").count)

Steps(c) ==
    \/ IrReset(c)
    \/ IrEnter(c)
    \/ IrShift(c)
    \/ IrExit(c)
    \/ DrEnter(c)
    \/ DrShift(c)
    \/ DrExit(c)

(***************************************************************************)
(* test_led_patterns, lines 346-379: for each of its patterns a led_write, *)
(* after a led_write that returned 0 a led_read into the uninitialised     *)
(* local read_data, and after a led_read that returned 0 the comparison.   *)
(***************************************************************************)
baseVars == << handleVars, deviceVars, callVars, histVars >>

\* test_patterns[], line 350 (1-based here), and num_patterns, line 352.
test_patterns == << 0, 15, 10, 5, 1, 2, 4, 8 >>
NumPatterns == 8

\* A loop that gives up at the first mismatch.
NextIndexStopOnMismatch(i, outcome) ==
    IF outcome = "mismatch" THEN NumPatterns ELSE i + 1

\* The index of the iteration that follows one that ended with `outcome`:
\* no branch of the body leaves the loop, and line 354 increments i.
NextIndex(i, outcome) == i + 1

\* A helper that looks at read_data whatever led_read returned.
TestComparesAlways(r) == TRUE

\* Line 363: read_data is compared and printed when led_read returned 0.
TestCompares(r) == r = 0

\* The call of test_led_patterns, lines 346-354.
TestStart(c) ==
    /\ tpc = "off"
    /\ pc[c] = "idle"
    /\ tpc' = "loop"
    /\ ti' = 0
    /\ attempts' = << >>
    /\ verdict' = "none"
    /\ cmpFailed' = FALSE
    /\ UNCHANGED baseVars

\* Line 358: led_write(handle, test_patterns[i]).
TestWrite(c) ==
    /\ tpc = "loop"
    /\ ti < NumPatterns
    /\ LedWrite(c, FALSE, test_patterns[ti + 1])
    /\ tpc' = "wrote"
    /\ attempts' = Append(attempts, test_patterns[ti + 1])
    /\ UNCHANGED << ti, verdict, cmpFailed >>

\* led_write has returned: lines 358-363 call led_read after a 0, lines
\* 371-375 report the failure otherwise and go to the next iteration.
TestAfterWrite(c) ==
    /\ tpc = "wrote"
    /\ pc[c] = "idle"
    /\ IF ret[c] = 0
       THEN /\ \E old \in UninitBytes : LedRead(c, FALSE, FALSE, old)
            /\ tpc' = "read"
            /\ UNCHANGED << ti, attempts, verdict, cmpFailed >>
       ELSE /\ tpc' = "loop"
            /\ ti' = NextIndex(ti, "write_failed")
            /\ verdict' = "write_failed"
            /\ UNCHANGED << baseVars, attempts, cmpFailed >>

\* led_read has returned: lines 363-375.
TestAfterRead(c) ==
    /\ tpc = "read"
    /\ pc[c] = "idle"
    /\ LET cmp == TestCompares(ret[c])
           outcome == IF ~cmp THEN "read_failed"
                      ELSE IF led_data[c] = test_patterns[ti + 1] THEN "verified"
                      ELSE "mismatch"
       IN  /\ verdict' = outcome
           /\ cmpFailed' = (cmpFailed \/ (cmp /\ ret[c] # 0))
           /\ ti' = NextIndex(ti, outcome)
           /\ tpc' = "loop"
           /\ UNCHANGED << baseVars, attempts >>

\* The loop condition of line 354 fails; line 378.
TestExit(c) ==
    /\ tpc = "loop"
    /\ ti >= NumPatterns
    /\ tpc' = "done"
    /\ UNCHANGED << baseVars, ti, attempts, verdict, cmpFailed >>

\* test_led_patterns returns to its caller.
TestReturn(c) ==
    /\ tpc = "done"
    /\ tpc' = "off"
    /\ ti' = 0
    /\ attempts' = << >>
    /\ verdict' = "none"
    /\ cmpFailed' = FALSE
    /\ UNCHANGED baseVars

\* The mocked peer of end-to-end scenario 4: while the helper reads back,
\* the register of the peer holds 0x3 whatever was written.
MockReadMismatch ==
    /\ tpc = "read"
    /\ reg # 3
    /\ reg' = 3
    /\ UNCHANGED << handleVars, openHandles, jtagEnabled, nOpens, tap,
                    callVars, histVars, progVars >>

(***************************************************************************)
(* The program as written: one thread of control calls the operations one  *)
(* after the other.                                                        *)
(***************************************************************************)
Next ==
    \/ ConnectDevice(1) /\ UNCHANGED progVars
    \/ DisconnectDevice(1) /\ UNCHANGED progVars
    \/ ShiftIrCall(1) /\ UNCHANGED progVars
    \/ ShiftDrCall(1) /\ UNCHANGED progVars
    \/ (\E p \in SomePatterns : LedWriteCall(1, p)) /\ UNCHANGED progVars
    \/ LedReadCall(1) /\ UNCHANGED progVars
    \/ Steps(1) /\ UNCHANGED progVars

Spec == Init /\ [][Next]_vars

(***************************************************************************)
(* Register accesses on a connected session: the state after the first     *)
(* connect_device has returned 0 (main, line 73).                          *)
(***************************************************************************)
Connected ==
    /\ hif = 1
    /\ is_connected = TRUE
    /\ openHandles = {1}
    /\ jtagEnabled = {1}
    /\ nOpens = 1
    /\ tap \in TapStates
    /\ reg = 0
    /\ pc = [c \in Callers |-> "idle"]
    /\ op = [c \in Callers |-> "none"]
    /\ arg = [c \in Callers |-> 0]
    /\ cmd_data = [c \in Callers |-> ZeroFrame]
    /\ response = [c \in Callers |-> ZeroFrame]
    /\ bit_count = [c \in Callers |-> 0]
    /\ capture = [c \in Callers |-> FALSE]
    /\ ret = [c \in Callers |-> 0]
    /\ led_data = [c \in Callers |-> 0]
    /\ wasConn = [c \in Callers |-> FALSE]
    /\ tap0 = [c \in Callers |-> "TestLogicReset"]
    /\ ncalls = [c \in Callers |-> 0]
    /\ failed = [c \in Callers |-> FALSE]
    /\ deadCall = [c \in Callers |-> FALSE]
    /\ tdiInShift = [c \in Callers |-> TRUE]
    /\ updated = [c \in Callers |-> FALSE]
    /\ teardown = [c \in Callers |-> FALSE]
    /\ interleaved = [c \in Callers |-> FALSE]
    /\ written = [c \in Callers |-> -1]
    /\ lastCaller = 0
    /\ nConnectOk = 1
    /\ nTeardown = 0
    /\ tdiSeen = [c \in Callers |-> << >>]
    /\ errmsg = [c \in Callers |-> ""]
    /\ out0 = [c \in Callers |-> 0]
    /\ badClose = [c \in Callers |-> FALSE]

InitConnected == Connected /\ TestOff /\ MainOff

\* One caller, every pattern.
NextAccess ==
    \/ (\E p \in Patterns : LedWriteCall(1, p)) /\ UNCHANGED progVars
    \/ LedReadCall(1) /\ UNCHANGED progVars
    \/ Steps(1) /\ UNCHANGED progVars

SpecAccess == InitConnected /\ [][NextAccess]_vars

\* Two callers sharing the session, the TAP at rest in Run-Test/Idle: each
\* invokes one register access, and their transport calls are scheduled in
\* any order.
InitConc == InitConnected /\ tap = "RunTestIdle"

NextConc ==
    \E c \in Callers :
        \/ op[c] = "none" /\ (\E p \in SomePatterns : LedWriteCall(c, p)) /\ UNCHANGED progVars
        \/ op[c] = "none" /\ LedReadCall(c) /\ UNCHANGED progVars
        \/ Steps(c) /\ UNCHANGED progVars

SpecConc == InitConc /\ [][NextConc]_vars

(***************************************************************************)
(* One operation on a connected session, its uint8_t argument drawn from   *)
(* the whole range of the type.                                            *)
(***************************************************************************)
NextByte ==
    \/ op[1] = "none" /\ (\E p \in Bytes : LedWrite(1, FALSE, p)) /\ UNCHANGED progVars
    \/ op[1] = "none" /\ (\E old \in UninitBytes : LedRead(1, FALSE, FALSE, old))
           /\ UNCHANGED progVars
    \/ op[1] = "none" /\ (\E instruction \in Bytes : ShiftIr(1, FALSE, instruction))
           /\ UNCHANGED progVars
    \/ Steps(1) /\ UNCHANGED progVars

SpecByte == InitConnected /\ [][NextByte]_vars

(***************************************************************************)
(* test_led_patterns run on a connected session (main, lines 82 and 98),   *)
(* from its first line to its return.  The program is one thread whose     *)
(* transport calls return, so a step of the program that can be taken is   *)
(* taken; nothing obliges the peer to act.                                 *)
(***************************************************************************)
InitTest ==
    /\ Connected
    /\ tpc = "loop"
    /\ ti = 0
    /\ attempts = << >>
    /\ verdict = "none"
    /\ cmpFailed = FALSE
    /\ MainOff

TestProgram ==
    \/ TestWrite(1) /\ UNCHANGED mainVars
    \/ TestAfterWrite(1) /\ UNCHANGED mainVars
    \/ TestAfterRead(1) /\ UNCHANGED mainVars
    \/ TestExit(1) /\ UNCHANGED mainVars
    \/ Steps(1) /\ UNCHANGED progVars

NextTest ==
    \/ TestProgram
    \/ MockReadMismatch

SpecTest == InitTest /\ [][NextTest]_vars /\ WF_vars(TestProgram)

(***************************************************************************)
(* The callers of led_read: a direct call (main, line 89, or any user of   *)
(* the operation, with or without a handle and an output location) and     *)
(* test_led_patterns, on a session that is connected or was never opened.  *)
(***************************************************************************)
InitRead == (Unconnected \/ Connected) /\ TestOff /\ MainOff

NextRead ==
    \/ tpc = "off" /\ LedReadCall(1) /\ UNCHANGED progVars
    \/ Steps(1) /\ UNCHANGED progVars
    \/ TestStart(1) /\ UNCHANGED mainVars
    \/ TestWrite(1) /\ UNCHANGED mainVars
    \/ TestAfterWrite(1) /\ UNCHANGED mainVars
    \/ TestAfterRead(1) /\ UNCHANGED mainVars
    \/ TestExit(1) /\ UNCHANGED mainVars
    \/ TestReturn(1) /\ UNCHANGED mainVars

SpecRead == InitRead /\ [][NextRead]_vars

(***************************************************************************)
(* main, lines 50-107: the manager handle g_dmgr is opened, the devices    *)
(* are enumerated, the first device is connected, one command of the       *)
(* command line is run, and the session and the manager are closed.        *)
(***************************************************************************)
InitMain ==
    /\ Unconnected
    /\ TestOff
    /\ mpc = "start"
    /\ mgr = "none"
    /\ status = 0
    /\ dblClose = FALSE

\* A main that leaves the manager open when connect_device fails.
MainClosesManagerButAfterConnect(stage) == stage # "connect"

\* Whether main calls DmgrClose(g_dmgr) before it returns at `stage`:
\* line 67 (no device), line 75 (connect failed), line 103 (end of main).
MainClosesManager(stage) == stage \in {"enum", "connect", "end"}

\* main returns at `stage` with the value code; devBad tells that the
\* operation of this step closed a device handle that was not open.
MainReturn(stage, code, devBad) ==
    /\ mgr' = IF MainClosesManager(stage) THEN "closed" ELSE mgr
    /\ dblClose' = (dblClose \/ devBad \/ (MainClosesManager(stage) /\ mgr # "open"))
    /\ status' = code
    /\ mpc' = "exit"

\* Lines 57-61: DmgrOpen(&g_dmgr, "").
MainOpen ==
    /\ mpc = "start"
    /\ \E ok \in BOOLEAN :
          IF ok
          THEN mgr' = "open" /\ mpc' = "enum" /\ UNCHANGED << status, dblClose >>
          ELSE MainReturn("open", 1, FALSE)
    /\ UNCHANGED << baseVars, testVars >>

\* Lines 64-69: enumerate_devices() gives the number of devices, 0 also
\* when DmgrEnumDevices fails (lines 113-116).
MainEnumerate ==
    /\ mpc = "enum"
    /\ \E device_count \in 0 .. 1 :
          IF device_count = 0
          THEN MainReturn("enum", 1, FALSE)
          ELSE mpc' = "connect" /\ UNCHANGED << mgr, status, dblClose >>
    /\ UNCHANGED << baseVars, testVars >>

\* Lines 72-77: connect_device(&jtag_handle, NULL).
MainConnect ==
    /\ mpc = "connect"
    /\ \E getOk, openOk, enOk \in BOOLEAN : Connect(1, FALSE, TRUE, getOk, openOk, enOk)
    /\ IF ret'[1] # 0
       THEN MainReturn("connect", 1, badClose'[1])
       ELSE mpc' = "command" /\ UNCHANGED << mgr, status, dblClose >>
    /\ UNCHANGED testVars

\* Lines 82 and 98: test_led_patterns(&jtag_handle).
MainTest ==
    /\ mpc = "command"
    /\ TestStart(1)
    /\ mpc' = "run"
    /\ UNCHANGED << mgr, status, dblClose >>

\* Lines 84-86: led_write(&jtag_handle, pattern).
MainWrite ==
    /\ mpc = "command"
    /\ \E pattern \in SomePatterns : LedWrite(1, FALSE, pattern)
    /\ mpc' = "run"
    /\ UNCHANGED << mgr, status, dblClose, testVars >>

\* Lines 88-89: led_read(&jtag_handle, &led_data), led_data uninitialised.
MainRead ==
    /\ mpc = "command"
    /\ \E old \in UninitBytes : LedRead(1, FALSE, FALSE, old)
    /\ mpc' = "run"
    /\ UNCHANGED << mgr, status, dblClose, testVars >>

\* Line 94: print_usage().
MainUsage ==
    /\ mpc = "command"
    /\ mpc' = "run"
    /\ UNCHANGED << mgr, status, dblClose, baseVars, testVars >>

\* Lines 101-106, once the command has returned: disconnect_device,
\* DmgrClose(g_dmgr), return 0.
MainCleanup ==
    /\ mpc = "run"
    /\ pc[1] = "idle"
    /\ tpc \in {"off", "done"}
    /\ Disconnect(1, FALSE)
    /\ MainReturn("end", 0, badClose'[1])
    /\ UNCHANGED testVars

NextMain ==
    \/ MainOpen
    \/ MainEnumerate
    \/ MainConnect
    \/ MainTest
    \/ MainWrite
    \/ MainRead
    \/ MainUsage
    \/ MainCleanup
    \/ TestProgram

SpecMain == InitMain /\ [][NextMain]_vars

(***************************************************************************)
(* Properties.                                                             *)
(***************************************************************************)
\* jtag_shift_ir has returned 0 to caller c.
IrReturnedOk(c) ==
    \/ op[c] \in RegisterAccess /\ pc[c] = "dr_enter"
    \/ op[c] = "jtag_shift_ir" /\ pc[c] = "idle" /\ ret[c] = 0

\* The register access of caller c has returned 0.
AccessReturnedOk(c) ==
    op[c] \in RegisterAccess /\ pc[c] = "idle" /\ ret[c] = 0

\* C1: a register access started with the TAP in Run-Test/Idle has the TAP
\* in Run-Test/Idle when its jtag_shift_ir returns 0 and again when its
\* jtag_shift_dr returns 0 (Idle -> IR shift cycle -> Idle -> DR shift cycle
\* -> Idle).
C1_IdleAfterEachCycle ==
    \A c \in Callers :
        op[c] \in RegisterAccess /\ tap0[c] = "RunTestIdle" =>
            /\ IrReturnedOk(c) => tap = "RunTestIdle"
            /\ AccessReturnedOk(c) => tap = "RunTestIdle"

\* C2: in jtag_shift_ir every one of the IR_LENGTH TDI bits is clocked with
\* the TAP in Shift-IR, and the TAP has passed through Update-IR when the
\* call returns 0.
C2_InstructionShiftedInShiftIR ==
    \A c \in Callers :
        /\ op[c] \in ShiftOps /\ pc[c] = "ir_exit" => tdiInShift[c]
        /\ IrReturnedOk(c) => updated[c]

\* C3: in the jtag_shift_dr of a register access every one of the DR_LENGTH
\* TDI bits is clocked with the TAP in Shift-DR, and the TAP has passed
\* through Update-DR when the call returns 0.
C3_DataShiftedInShiftDR ==
    \A c \in Callers :
        /\ op[c] \in RegisterAccess /\ pc[c] = "dr_exit" => tdiInShift[c]
        /\ AccessReturnedOk(c) => updated[c]

\* C4: two register accesses invoked concurrently on one session serialize:
\* no transport call of one falls between two transport calls of the other.
C4_AccessesSerialize ==
    \A c \in Callers : ~interleaved[c]

\* C5: a led_write whose value exceeds the 4-bit range returns failure
\* without issuing any TMS or TDI shift.
C5_WideValueRejected ==
    \A c \in Callers :
        op[c] = "led_write" /\ arg[c] > 15 =>
            pc[c] = "idle" /\ ret[c] = -1 /\ ncalls[c] = 0

\* C6: once a transport call of a register access has failed, the access
\* has returned failure: it stands at no further transport call (no retry,
\* no DR scan after a failed IR scan), and the failed call was its last.
C6_FailFast ==
    \A c \in Callers :
        op[c] \in RegisterAccess /\ failed[c] =>
            pc[c] = "idle" /\ ret[c] = -1

C6_Witness ==
    \E c \in Callers :
        /\ op[c] \in RegisterAccess /\ failed[c]
        /\ ncalls[c] = 6 /\ pc[c] = "idle" /\ ret[c] = -1

\* C7: a led_read that returns 0 directly after a led_write(p) that returned
\* 0, p a 4-bit pattern, stores p in its output location (the peer being the
\* mock that keeps the data field of the written frame and echoes it).
C7_WriteThenRead ==
    \A c \in Callers :
        op[c] = "led_read" /\ pc[c] = "idle" /\ ret[c] = 0 /\ written[c] \in 0 .. 15
            => led_data[c] = written[c]

C7_Witness ==
    \E c \in Callers :
        /\ op[c] = "led_read" /\ pc[c] = "idle" /\ ret[c] = 0
        /\ written[c] = 15 /\ led_data[c] = 15

\* C8: disconnect_device on a session that is not connected returns 0
\* without running the teardown, and the teardown (DjtgDisable, DmgrClose)
\* has run at most once per successful connect_device.
C8_CloseIdempotent ==
    /\ \A c \in Callers :
            op[c] = "disconnect_device" /\ ~wasConn[c] => ret[c] = 0 /\ ~teardown[c]
    /\ nTeardown <= nConnectOk

C8_Witness ==
    \E c \in Callers :
        /\ op[c] = "disconnect_device" /\ ~wasConn[c] /\ ret[c] = 0
        /\ nConnectOk = 1 /\ nTeardown = 1

\* C9: every TMS or TDI transport call is issued on a handle that is open
\* and JTAG-enabled, and a shift or access operation called on a session
\* that is not connected returns failure without any transport call.
C9_NoShiftOnClosedSession ==
    \A c \in Callers :
        /\ ~deadCall[c]
        /\ op[c] \in ShiftOps /\ ~wasConn[c] =>
               pc[c] = "idle" /\ ret[c] = -1 /\ ncalls[c] = 0

\* C10: for a 4-bit pattern p, the frame led_write builds, read back as
\* led_read extracts its result (byte 8, low nibble), yields p.
C10_FrameRoundTrip ==
    \A c \in Callers :
        op[c] = "led_write" /\ wasConn[c] /\ arg[c] \in 0 .. 15
            => ExtractLed(cmd_data[c]) = arg[c]

C10_Witness ==
    \E c \in Callers :
        /\ op[c] = "led_write" /\ wasConn[c] /\ arg[c] = 15
        /\ pc[c] = "dr_shift" /\ ExtractLed(cmd_data[c]) = 15

\* C11: every command frame led_write and led_read hand to the DR shift is
\* 12 bytes, that is DR_LENGTH = 96 bits, shifted with bit_count = 96, and
\* is laid out opcode (4 bytes), address (4 bytes), data (4 bytes), each
\* little-endian; the high 28 bits of the data field are zero for every
\* 8-bit led_pattern of a write, and the whole data field is zero for a read.
C11_FrameLayout ==
    \A c \in Callers :
        op[c] \in RegisterAccess /\ pc[c] \in DrPcs =>
            /\ Len(cmd_data[c]) = 12
            /\ 8 * Len(cmd_data[c]) = DR_LENGTH
            /\ bit_count[c] = DR_LENGTH
            /\ \A i \in 1 .. 12 : cmd_data[c][i] \in Bytes
            /\ Field32(cmd_data[c], 0) = (IF op[c] = "led_write" THEN CMD_WRITE ELSE CMD_READ)
            /\ Field32(cmd_data[c], 4) = LED_BASE_ADDR
            /\ Field32(cmd_data[c], 8) \div 16 = 0
            /\ op[c] = "led_write" => Field32(cmd_data[c], 8) = arg[c] % 16
            /\ op[c] = "led_read" => Field32(cmd_data[c], 8) = 0

\* A write of the pattern 0xFF stands at its DR shift with the data field 0xF.
C11_Witness ==
    \E c \in Callers :
        /\ op[c] = "led_write" /\ arg[c] = MaxByte /\ pc[c] = "dr_shift"
        /\ Field32(cmd_data[c], 8) = 15 /\ bit_count[c] = DR_LENGTH

\* C12: jtag_shift_ir presents exactly IR_LENGTH = 6 data bits to the
\* transport, in a single TDI shift, whatever the 8-bit instruction value:
\* no TDI shift before the call reaches its data shift, one of IR_LENGTH
\* bits from then on.
C12_IrShiftWidth ==
    \A c \in Callers :
        op[c] = "jtag_shift_ir" /\ wasConn[c] =>
            /\ pc[c] \in {"ir_reset", "ir_enter", "ir_shift"} => tdiSeen[c] = << >>
            /\ pc[c] = "ir_exit" => tdiSeen[c] = << IR_LENGTH >>
            /\ pc[c] = "idle" /\ ret[c] = 0 => tdiSeen[c] = << IR_LENGTH >>
            /\ pc[c] = "idle" => Len(tdiSeen[c]) <= 1
            /\ \A i \in 1 .. Len(tdiSeen[c]) : tdiSeen[c][i] = IR_LENGTH

\* jtag_shift_ir of the instruction 0xFF has returned 0 after one TDI shift
\* of six bits.
C12_Witness ==
    \E c \in Callers :
        /\ op[c] = "jtag_shift_ir" /\ arg[c] = MaxByte
        /\ pc[c] = "idle" /\ ret[c] = 0 /\ tdiSeen[c] = << IR_LENGTH >>

\* C13: a jtag_shift_dr call on a connected session whose bit_count is not
\* DR_LENGTH returns -1 without having made a TMS or TDI call.
C13_BadWidthRejected ==
    \A c \in Callers :
        op[c] = "jtag_shift_dr" /\ wasConn[c] /\ bit_count[c] # DR_LENGTH =>
            pc[c] = "idle" /\ ret[c] = -1 /\ ncalls[c] = 0

\* The register access of caller c has returned -1 after a transport call
\* of its IR cycle (calls 1 to 4), or of its DR cycle (calls 5 to 7), failed.
FailedInIr(c) ==
    op[c] \in RegisterAccess /\ pc[c] = "idle" /\ failed[c] /\ ncalls[c] <= 4

FailedInDr(c) ==
    op[c] \in RegisterAccess /\ pc[c] = "idle" /\ failed[c] /\ ncalls[c] > 4

\* C16 as stated: the result a register access gives its caller for a
\* failure in the IR cycle differs from the result it gives for a failure
\* in the DR cycle.
C16_ResultTellsStep ==
    \A c1, c2 \in Callers :
        FailedInIr(c1) /\ FailedInDr(c2) => ret[c1] # ret[c2]

\* C16 amended: a register access returns -1 for a failure of either cycle,
\* and the ERROR line it has printed tells the cycle: a line of the IR cycle
\* and of no DR call for an IR failure, a line of the DR cycle and of no IR
\* call for a DR failure.
C16_ErrorLineTellsStep ==
    \A c \in Callers :
        /\ FailedInIr(c) => ret[c] = -1 /\ errmsg[c] \in IrErrors \ DrErrors
        /\ FailedInDr(c) => ret[c] = -1 /\ errmsg[c] \in DrErrors \ IrErrors

\* One access has failed in its IR cycle and another in its DR cycle: both
\* have returned -1, and their ERROR lines differ.
C16_Witness ==
    \E c1, c2 \in Callers :
        /\ FailedInIr(c1) /\ FailedInDr(c2)
        /\ ret[c1] = -1 /\ ret[c2] = -1
        /\ errmsg[c1] = "Failed to reset TAP" /\ errmsg[c2] = "Failed to shift data"

\* C17: jtag_shift_ir opens with five TMS = 1 clocks, so a jtag_shift_ir
\* that returns 0, and a register access that returns 0, has issued the same
\* transport calls (4 and 7 of them, with the same TDI widths) and leaves
\* the TAP in one and the same state, whichever of the sixteen states the
\* TAP was in when the operation was called.
C17_EndStateIndependentOfStart ==
    \A c \in Callers :
        /\ IrReturnedOk(c) =>
                tap = "SelectIRScan" /\ ncalls[c] = 4 /\ tdiSeen[c] = << IR_LENGTH >>
        /\ AccessReturnedOk(c) =>
                tap = "SelectIRScan" /\ ncalls[c] = 7 /\ tdiSeen[c] = << IR_LENGTH, DR_LENGTH >>

\* jtag_shift_ir called with the TAP in Pause-DR has returned 0.
C17_Witness ==
    \E c \in Callers :
        /\ op[c] = "jtag_shift_ir" /\ tap0[c] = "PauseDR"
        /\ pc[c] = "idle" /\ ret[c] = 0 /\ tap = "SelectIRScan"

\* C18: at most one device handle is open at any time, and the handle of
\* the session is open with JTAG enabled exactly when is_connected is set.
C18_OneHandleOpen ==
    /\ Cardinality(openHandles) <= 1
    /\ is_connected <=> (hif \in openHandles /\ hif \in jtagEnabled)

\* C14: test_led_patterns goes on to the next pattern whatever an iteration
\* ended with (verified, mismatch, read failure, write failure): the patterns
\* it has called led_write with are always the first i or i + 1 of its eight
\* test patterns, in order and each once; when it returns it has attempted
\* all eight; and it does return.
C14_TestRunsEveryPattern ==
    /\ [](/\ Len(attempts) <= NumPatterns
          /\ attempts = SubSeq(test_patterns, 1, Len(attempts))
          /\ Len(attempts) = (IF tpc \in {"wrote", "read"} THEN ti + 1 ELSE ti)
          /\ tpc = "done" => attempts = test_patterns)
    /\ <>(tpc = "done")

\* The read-back of 0x5 was a mismatch, and the helper has gone on to call
\* led_write with the next pattern.
C14_Witness ==
    /\ tpc = "wrote"
    /\ verdict = "mismatch"
    /\ attempts = << 0, 15, 10, 5, 1 >>

\* C15: on every path through main the manager handle and the device handle
\* that were opened are closed when main has returned, whether main returns
\* because the manager, the enumeration, the device open or the JTAG enable
\* failed or after its command, failed register accesses included; and
\* DmgrClose is never called on a handle that is not open.
C15_MainClosesWhatItOpened ==
    /\ ~dblClose
    /\ mpc = "exit" =>
          /\ openHandles = {}
          /\ jtagEnabled = {}
          /\ mgr # "open"
          /\ ~is_connected

\* main has returned 0 after a test_led_patterns whose last led_write
\* failed: the session was torn down once and the manager handle is closed.
C15_Witness ==
    /\ mpc = "exit" /\ status = 0
    /\ tpc = "done" /\ verdict = "write_failed"
    /\ nConnectOk = 1 /\ nTeardown = 1
    /\ mgr = "closed" /\ openHandles = {}

\* C19: led_read stores to its output location only when it returns 0: a
\* led_read that has not returned 0 (still running, or returned -1 because
\* the session is closed or a call of the IR or DR cycle failed) has left
\* *led_data as it was when led_read was called; and test_led_patterns
\* never compares or prints read_data after a led_read that failed.
C19_OutputWrittenOnSuccessOnly ==
    /\ \A c \in Callers :
          op[c] = "led_read" /\ ~(pc[c] = "idle" /\ ret[c] = 0) => led_data[c] = out0[c]
    /\ ~cmpFailed

\* In test_led_patterns a led_read whose closing DR call failed has
\* returned -1, read_data still holds its uninitialised content 0xFF, and
\* the helper has gone on without a comparison.
C19_Witness ==
    /\ tpc = "loop"
    /\ verdict = "read_failed"
    /\ op[1] = "led_read" /\ ret[1] = -1 /\ ncalls[1] = 7
    /\ out0[1] = MaxByte /\ led_data[1] = MaxByte
    /\ ~cmpFailed

====
